---- MODULE Spec2Model ----
(***************************************************************************)
(* awsToolz: the web deletion route (wipeIt/app.py) driving AWSDestroyer   *)
(* (wipeIt/aws_destroyer.py), the ARN command line tool (ARNssassin.py)    *)
(* and the web inventory route driving AWSInventory                        *)
(* (wipeIt/aws_inventory.py).  The cloud provider is the environment: each *)
(* provider call either returns or raises, chosen nondeterministically.    *)
(* Spec, SpecArn and SpecInv each follow one request or one run of the     *)
(* tool; SpecEbs is Spec on block volumes with the server's progress;      *)
(* SpecPar follows two deletion requests served at once; SpecSession       *)
(* follows the requests of one browser session.                            *)
(***************************************************************************)
EXTENDS Integers, Sequences, FiniteSets, TLC

\* ------------------------------------------------------------------ bounds
\* Total number of resource ids in one deletion batch.
MaxBatch == 3
\* Provider calls that raise during one run (with working credentials).
MaxFaults == 1
\* Length of the list of ARNs given to the command line tool.
MaxArns == 2
\* Buckets of the account.
MaxBuckets == 2
\* Polls the volume_available waiter makes before it gives up (the provider
\* library configures 40, fifteen seconds apart).
MaxAttempts == 2
\* Requests one browser session sends.
MaxRequests == 3

VARIABLES
    creds,         \* environment: what the named profile resolves to
    session,       \* the Flask session cookie: profile and region, or NoSession
    selections,    \* request.json['selections'], in dict order: <<[kind, ids]>>
    pc,            \* position of the running entry point
    ri,            \* index of the request of app.delete_resources' loop
    ii,            \* index of the id of AWSDestroyer.delete_resources' loop
    hpc,           \* position inside the running delete_* / discover_* handler
    results,       \* AWSDestroyer.delete_resources' local results
    all_results,   \* app.delete_resources' all_results
    calls,         \* every provider call issued so far, in order
    faults,        \* provider calls that raised so far
    response,      \* the HTTP response, or NoResponse
    confirmation,  \* the answer given at a confirmation prompt, "none" without a prompt
    volume,        \* delete_ebs' local volume
    attempts,      \* delete_ebs: polls the volume_available waiter has made
    listing,       \* environment: the pages list_object_versions returns
    pageNo,        \* delete_s3: pages of the paginator consumed so far
    jsonfile,      \* ARNssassin: whether --json-file can be read and parsed
    arns,          \* ARNssassin: the list loaded from the JSON file
    ai,            \* ARNssassin: index of the arn of main's loop
    printed,       \* ARNssassin: the results main printed, one per delete_resource
    request,       \* POST /api/inventory: request.json's profile and region
    npages,        \* environment: pages each paginated listing returns
    buckets,       \* environment: the account's buckets and their LocationConstraint
    inventory,     \* discover_all: the kinds discovered so far, with their lists
    ki,            \* discover_all: index of the kind being discovered
    found,         \* discover_*: the local list being built
    bi,            \* discover_s3: index of the bucket of the loop
    threads,       \* concurrent POST /api/delete: the locals of each serving thread
    volumes,       \* environment: the provider's state of each volume
    destroyer,     \* app.delete_resources: the profile and region of its AWSDestroyer
    data,          \* POST /api/delete: profile and region sent along in request.json
    history        \* the requests the session has sent so far, in order

arnVars == <<jsonfile, arns, ai, printed>>
invVars == <<request, npages, buckets, inventory, ki, found, bi>>
parVars == <<threads, volumes>>
webVars == <<destroyer, data, history>>

vars == <<creds, session, selections, pc, ri, ii, hpc, results, all_results,
          calls, faults, response, confirmation, volume, attempts, listing, pageNo,
          arnVars, invVars, parVars, webVars>>

NoSession == [profile |-> "", region |-> ""]
NoResponse == [status |-> 0, body |-> "none", results |-> <<>>]
NoVolume == [Attachments |-> <<>>]

\* The keys of AWSDestroyer.delete_resources' dispatch table.
deletion_methods == {"lambda", "api_gateway", "sqs", "ec2", "cloudwatch_logs", "ebs", "s3"}
\* The kinds a request may name: the engine's, and one it has no handler for.
RequestKinds == deletion_methods \cup {"rds"}

IdPool == <<"r1", "r2", "r3", "r4", "r5">>
IdLists == {SubSeq(IdPool, 1, n) : n \in 0..MaxBatch}

RECURSIVE SumLens(_)
SumLens(sel) == IF sel = <<>> THEN 0 ELSE Len(sel[1].ids) + SumLens(Tail(sel))

\* A selections object: distinct kinds (dict keys), each with a list of ids.
\* An empty id list counts as one towards the size of the batch.
Requests == [kind : RequestKinds, ids : IdLists]
RequestCounts == 0..2
IsSelection(sel) ==
    /\ \A i, j \in 1..Len(sel) : i # j => sel[i].kind # sel[j].kind
    /\ SumLens(sel) + Cardinality({i \in 1..Len(sel) : sel[i].ids = <<>>}) <= MaxBatch
SelectionsOfLen(n) == {sel \in [1..n -> Requests] : IsSelection(sel)}
Selections == UNION {SelectionsOfLen(n) : n \in RequestCounts}

\* The object listings of a bucket the environment may hold: pages of object
\* versions and delete markers (a paginator yields at least one page).
Page(vs, ms) == [versions |-> vs, markers |-> ms]
EmptyListing == <<Page({}, {})>>
Listings == {EmptyListing,
             <<Page({"v1", "v2"}, {"m1"})>>,
             <<Page({"v1"}, {}), Page({}, {"m1"})>>,
             <<Page({"v1"}, {"m1"}), Page({"v2"}, {"m2"})>>}

\* ------------------------------------------------------- provider boundary
Errors == {"ClientError", "EndpointConnectionError"}
\* What a provider call can do: without credentials botocore raises
\* NoCredentialsError when the request is signed; otherwise it returns or raises.
Outcomes ==
    IF creds = "nocreds" THEN {"NoCredentialsError"}
    ELSE {"ok"} \cup (IF faults < MaxFaults THEN Errors ELSE {})

Call(op, arg, out, ret) ==
    /\ calls' = Append(calls, [op |-> op, arg |-> arg, out |-> out, ret |-> ret])
    /\ faults' = IF out \in Errors THEN faults + 1 ELSE faults

\* ------------------------------------------------- wipeIt/aws_destroyer.py
CurReq == selections[ri]
CurId == CurReq.ids[ii]

Deleted(id, kind) == [resource |-> id, status |-> "deleted", type |-> kind, error |-> "none"]
Failed(id, kind, e) == [resource |-> id, status |-> "failed", type |-> kind, error |-> e]

\* return result; results.append(result); next resource_id
Finish(r) ==
    /\ results' = Append(results, r)
    /\ ii' = ii + 1
    /\ pc' = "dispatch"
    /\ hpc' = "none"

\* A handler that is one provider call inside try/except Exception.
SingleCall(kind, op) ==
    /\ pc = "handler" /\ hpc = kind
    /\ \E out \in Outcomes :
        /\ Call(op, CurId, out, {})
        /\ Finish(IF out = "ok" THEN Deleted(CurId, kind) ELSE Failed(CurId, kind, out))
    /\ UNCHANGED <<parVars, webVars, invVars, arnVars, creds, session, selections, ri,
                   all_results, response, confirmation, volume, attempts, listing, pageNo>>

delete_lambda ==
    /\ hpc = "lambda"
    /\ SingleCall("lambda", "delete_function")

delete_api_gateway ==
    /\ hpc = "api_gateway"
    /\ SingleCall("api_gateway", "delete_rest_api")

delete_sqs ==
    /\ hpc = "sqs"
    /\ SingleCall("sqs", "delete_queue")

delete_cloudwatch_logs ==
    /\ hpc = "cloudwatch_logs"
    /\ SingleCall("cloudwatch_logs", "delete_log_group")

\* delete_ec2: the protection flag is cleared in an inner try whose except only
\* logs a warning; terminate_instances follows either way.
ec2_modify ==
    /\ pc = "handler" /\ hpc = "ec2"
    /\ \E out \in Outcomes : Call("modify_instance_attribute", CurId, out, {})
    /\ hpc' = "ec2_terminate"
    /\ UNCHANGED <<parVars, webVars, invVars, arnVars, creds, session, selections, pc, ri, ii,
                   results, all_results, response, confirmation, volume, attempts, listing,
                   pageNo>>

ec2_terminate ==
    /\ pc = "handler" /\ hpc = "ec2_terminate"
    /\ \E out \in Outcomes :
        /\ Call("terminate_instances", CurId, out, {})
        /\ Finish(IF out = "ok" THEN Deleted(CurId, "ec2") ELSE Failed(CurId, "ec2", out))
    /\ UNCHANGED <<parVars, webVars, invVars, arnVars, creds, session, selections, ri,
                   all_results, response, confirmation, volume, attempts, listing, pageNo>>

\* delete_ebs: describe_volumes(...)['Volumes'][0]; an empty Volumes list raises
\* IndexError, caught like every other exception.
ebs_describe_raise ==
    /\ pc = "handler" /\ hpc = "ebs"
    /\ \E out \in Outcomes \ {"ok"} :
        /\ Call("describe_volumes", CurId, out, {})
        /\ Finish(Failed(CurId, "ebs", out))
    /\ UNCHANGED <<parVars, webVars, invVars, arnVars, creds, session, selections, ri,
                   all_results, response, confirmation, volume, attempts, listing, pageNo>>

ebs_describe_empty ==
    /\ pc = "handler" /\ hpc = "ebs" /\ "ok" \in Outcomes
    /\ Call("describe_volumes", CurId, "ok", {"empty"})
    /\ Finish(Failed(CurId, "ebs", "IndexError"))
    /\ UNCHANGED <<parVars, webVars, invVars, arnVars, creds, session, selections, ri,
                   all_results, response, confirmation, volume, attempts, listing, pageNo>>

\* A delete_ebs that goes to delete_volume whatever describe_volumes reported.
AfterDescribeNoDetach(v) == "ebs_delete"

\* if volume['Attachments']: detach and wait; else straight to delete_volume.
AfterDescribe(v) == IF v.Attachments # <<>> THEN "ebs_detach" ELSE "ebs_delete"

ebs_describe ==
    /\ pc = "handler" /\ hpc = "ebs" /\ "ok" \in Outcomes
    /\ \E ret \in {{"attached"}, {"unattached"}} :
        /\ Call("describe_volumes", CurId, "ok", ret)
        /\ volume' = [Attachments |-> IF ret = {"attached"} THEN <<"i-1">> ELSE <<>>]
    /\ hpc' = AfterDescribe(volume')
    /\ UNCHANGED <<parVars, webVars, invVars, arnVars, creds, session, selections, pc, ri, ii,
                   results, all_results, response, confirmation, attempts, listing, pageNo>>

\* One provider call of a multi-step handler: on success go on to `next`, on any
\* exception return the Failed result.
Step(kind, at, op, ret, next) ==
    /\ pc = "handler" /\ hpc = at
    /\ \E out \in Outcomes :
        /\ Call(op, CurId, out, ret)
        /\ IF out = "ok"
           THEN /\ hpc' = next
                /\ UNCHANGED <<pc, ii, results>>
           ELSE Finish(Failed(CurId, kind, out))
    /\ UNCHANGED <<parVars, webVars, invVars, arnVars, creds, session, selections, ri,
                   all_results, response, confirmation, volume, attempts, listing>>

ebs_detach == Step("ebs", "ebs_detach", "detach_volume", {}, "ebs_wait") /\ UNCHANGED pageNo

\* waiter = client.get_waiter('volume_available'); waiter.wait(VolumeIds=[volume_id])
\* The waiter is built with the provider library's configuration: it polls
\* describe_volumes, returns on a volume reported available and raises once it
\* has polled MaxAttempts times; a poll that raises ends the wait as well.
MaxAttemptsExceeded == "Waiter VolumeAvailable failed: Max attempts exceeded"

\* A waiter that polls for as long as the volume is not available.
WaiterNeverGivesUp(n) == FALSE

\* The waiter's attempt budget: n polls made, none of them decisive.
WaiterGivesUp(n) == n >= MaxAttempts

\* waiter.wait returns or raises; delete_ebs goes on to delete_volume or its
\* except Exception returns the Failed result.
WaitEnds(out) ==
    /\ Call("wait_volume_available", CurId, out, {})
    /\ attempts' = 0
    /\ IF out = "ok"
       THEN /\ hpc' = "ebs_delete"
            /\ UNCHANGED <<pc, ii, results>>
       ELSE Finish(Failed(CurId, "ebs", out))
    /\ UNCHANGED <<parVars, webVars, invVars, arnVars, creds, session, selections, ri,
                   all_results, response, confirmation, volume, listing, pageNo>>

\* A poll that finds the volume still in use, with polls left: sleep, poll again.
ebs_wait_poll ==
    /\ pc = "handler" /\ hpc = "ebs_wait" /\ "ok" \in Outcomes
    /\ ~WaiterGivesUp(attempts + 1)
    /\ attempts' = attempts + 1
    /\ UNCHANGED <<parVars, webVars, invVars, arnVars, creds, session, selections, pc, ri, ii,
                   hpc, results, all_results, calls, faults, response, confirmation, volume,
                   listing, pageNo>>

\* The last poll of the budget finds the volume still in use.
ebs_wait_timeout ==
    /\ pc = "handler" /\ hpc = "ebs_wait" /\ "ok" \in Outcomes
    /\ WaiterGivesUp(attempts + 1)
    /\ WaitEnds(MaxAttemptsExceeded)

\* A poll that finds the volume available, or that raises.
ebs_wait ==
    /\ pc = "handler" /\ hpc = "ebs_wait"
    /\ \E out \in Outcomes : WaitEnds(out)

ebs_delete ==
    /\ pc = "handler" /\ hpc = "ebs_delete"
    /\ \E out \in Outcomes :
        /\ Call("delete_volume", CurId, out, {})
        /\ Finish(IF out = "ok" THEN Deleted(CurId, "ebs") ELSE Failed(CurId, "ebs", out))
    /\ UNCHANGED <<parVars, webVars, invVars, arnVars, creds, session, selections, ri,
                   all_results, response, confirmation, volume, attempts, listing, pageNo>>

\* delete_s3: for page in paginator.paginate(Bucket=bucket_name)
Objects(p, keys) == {<<p, k>> : k \in keys}

s3_list ==
    /\ Step("s3", "s3", "list_object_versions", {pageNo + 1}, "s3_versions")
    /\ pageNo' = IF hpc' = "s3_versions" THEN pageNo + 1 ELSE 0

\* versions = page.get('Versions', []); if versions: client.delete_objects(...)
s3_versions ==
    \/ /\ pc = "handler" /\ hpc = "s3_versions"
       /\ listing[pageNo].versions = {}
       /\ hpc' = "s3_markers"
       /\ UNCHANGED <<parVars, webVars, invVars, arnVars, creds, session, selections, pc, ri,
                      ii, results, all_results, calls, faults, response, confirmation, volume,
                      attempts, listing, pageNo>>
    \/ /\ pc = "handler" /\ hpc = "s3_versions"
       /\ listing[pageNo].versions # {}
       /\ Step("s3", "s3_versions", "delete_objects",
               Objects(pageNo, listing[pageNo].versions), "s3_markers")
       /\ pageNo' = IF hpc' = "s3_markers" THEN pageNo ELSE 0

\* After the markers of a page: the next page, or the bucket itself.
AfterPage == IF pageNo < Len(listing) THEN "s3" ELSE "s3_delete"

s3_markers ==
    \/ /\ pc = "handler" /\ hpc = "s3_markers"
       /\ listing[pageNo].markers = {}
       /\ hpc' = AfterPage
       /\ UNCHANGED <<parVars, webVars, invVars, arnVars, creds, session, selections, pc, ri,
                      ii, results, all_results, calls, faults, response, confirmation, volume,
                      attempts, listing, pageNo>>
    \/ /\ pc = "handler" /\ hpc = "s3_markers"
       /\ listing[pageNo].markers # {}
       /\ Step("s3", "s3_markers", "delete_objects",
               Objects(pageNo, listing[pageNo].markers), AfterPage)
       /\ pageNo' = IF hpc' = AfterPage THEN pageNo ELSE 0

s3_delete ==
    /\ pc = "handler" /\ hpc = "s3_delete"
    /\ \E out \in Outcomes :
        /\ Call("delete_bucket", CurId, out, {})
        /\ Finish(IF out = "ok" THEN Deleted(CurId, "s3") ELSE Failed(CurId, "s3", out))
    /\ pageNo' = 0
    /\ UNCHANGED <<parVars, webVars, invVars, arnVars, creds, session, selections, ri,
                   all_results, response, confirmation, volume, attempts, listing>>

\* AWSDestroyer.delete_resources: for resource_id in resource_ids
dispatch_next ==
    /\ pc = "dispatch" /\ ii <= Len(CurReq.ids)
    /\ pc' = "handler"
    /\ hpc' = CurReq.kind
    /\ UNCHANGED <<parVars, webVars, invVars, arnVars, creds, session, selections, ri, ii,
                   results, all_results, calls, faults, response, confirmation, volume,
                   attempts, listing, pageNo>>

dispatch_end ==
    /\ pc = "dispatch" /\ ii > Len(CurReq.ids)
    /\ pc' = "return"
    /\ UNCHANGED <<parVars, webVars, invVars, arnVars, creds, session, selections, ri, ii, hpc,
                   results, all_results, calls, faults, response, confirmation, volume,
                   attempts, listing, pageNo>>

\* ----------------------------------------------------------- wipeIt/app.py
\* POST /api/delete without profile or region in the session.
route_expired ==
    /\ pc = "idle"
    /\ (session.profile = "" \/ session.region = "")
    /\ response' = [status |-> 400, body |-> "Session expired", results |-> <<>>]
    /\ pc' = "done"
    /\ UNCHANGED <<parVars, webVars, invVars, arnVars, creds, session, selections, ri, ii, hpc,
                   results, all_results, calls, faults, confirmation, volume, attempts, listing,
                   pageNo>>

\* AWSDestroyer(profile, region): boto3.Session raises ProfileNotFound for an
\* unknown profile; the route's except Exception answers 500.
route_noprofile ==
    /\ pc = "idle"
    /\ session.profile # "" /\ session.region # ""
    /\ creds = "noprofile"
    /\ response' = [status |-> 500, body |-> "ProfileNotFound", results |-> <<>>]
    /\ pc' = "done"
    /\ UNCHANGED <<parVars, webVars, invVars, arnVars, creds, session, selections, ri, ii, hpc,
                   results, all_results, calls, faults, confirmation, volume, attempts, listing,
                   pageNo>>

\* A route that builds its AWSDestroyer from what the request sent along.
DestroyerArgsOfRequest(cookie, body) == body

\* profile = session.get('profile'); region = session.get('region');
\* destroyer = AWSDestroyer(profile, region)
DestroyerArgs(cookie, body) == cookie

route_start ==
    /\ pc = "idle"
    /\ session.profile # "" /\ session.region # ""
    /\ creds # "noprofile"
    /\ destroyer' = DestroyerArgs(session, data)
    /\ all_results' = <<>>
    /\ ri' = 1
    /\ pc' = "route"
    /\ UNCHANGED <<parVars, data, history, invVars, arnVars, creds, session, selections, ii,
                   hpc, results, calls, faults, response, confirmation, volume, attempts,
                   listing, pageNo>>

\* for resource_type, resource_ids in selections.items(): if resource_ids: ...
route_skip ==
    /\ pc = "route" /\ ri <= Len(selections)
    /\ CurReq.ids = <<>>
    /\ ri' = ri + 1
    /\ UNCHANGED <<parVars, webVars, invVars, arnVars, creds, session, selections, pc, ii, hpc,
                   results, all_results, calls, faults, response, confirmation, volume,
                   attempts, listing, pageNo>>

\* destroyer.delete_resources(resource_type, resource_ids): results = [] and,
\* only if resource_type in deletion_methods, the loop over the ids.
AfterLookup(kind) == IF kind \in deletion_methods THEN "dispatch" ELSE "return"

route_call ==
    /\ pc = "route" /\ ri <= Len(selections)
    /\ CurReq.ids # <<>>
    /\ results' = <<>>
    /\ ii' = 1
    /\ pc' = AfterLookup(CurReq.kind)
    /\ UNCHANGED <<parVars, webVars, invVars, arnVars, creds, session, selections, ri, hpc,
                   all_results, calls, faults, response, confirmation, volume, attempts,
                   listing, pageNo>>

\* all_results.extend(results)
route_extend ==
    /\ pc = "return"
    /\ all_results' = all_results \o results
    /\ ri' = ri + 1
    /\ pc' = "route"
    /\ UNCHANGED <<parVars, webVars, invVars, arnVars, creds, session, selections, ii, hpc,
                   results, calls, faults, response, confirmation, volume, attempts, listing,
                   pageNo>>

route_respond ==
    /\ pc = "route" /\ ri > Len(selections)
    /\ response' = [status |-> 200, body |-> "success", results |-> all_results]
    /\ pc' = "done"
    /\ UNCHANGED <<parVars, webVars, invVars, arnVars, creds, session, selections, ri, ii, hpc,
                   results, all_results, calls, faults, confirmation, volume, attempts, listing,
                   pageNo>>

HasKind(sel, k) == \E i \in 1..Len(sel) : sel[i].kind = k /\ sel[i].ids # <<>>
WebSessions == {NoSession, [profile |-> "p1", region |-> "us-east-1"]}

\* A POST /api/delete has arrived; nothing has run yet.
Init ==
    /\ creds \in {"ok", "nocreds", "noprofile"}
    /\ session \in WebSessions
    /\ selections \in Selections
    /\ listing \in (IF HasKind(selections, "s3") THEN Listings ELSE {EmptyListing})
    /\ pc = "idle"
    /\ ri = 0 /\ ii = 0 /\ hpc = "none"
    /\ results = <<>> /\ all_results = <<>>
    /\ calls = <<>> /\ faults = 0
    /\ response = NoResponse
    /\ confirmation = "none"
    /\ volume = NoVolume /\ attempts = 0
    /\ pageNo = 0
    /\ jsonfile = "ok" /\ arns = <<>> /\ ai = 0 /\ printed = <<>>
    /\ request = NoSession /\ npages = 1 /\ buckets = <<>>
    /\ inventory = <<>> /\ ki = 0 /\ found = <<>> /\ bi = 0
    /\ threads = <<>> /\ volumes = <<>>
    /\ destroyer = NoSession /\ data = NoSession /\ history = <<>>

Next ==
    \/ route_expired \/ route_noprofile \/ route_start
    \/ route_skip \/ route_call \/ route_extend \/ route_respond
    \/ dispatch_next \/ dispatch_end
    \/ delete_lambda \/ delete_api_gateway \/ delete_sqs \/ delete_cloudwatch_logs
    \/ ec2_modify \/ ec2_terminate
    \/ ebs_describe_raise \/ ebs_describe_empty \/ ebs_describe
    \/ ebs_detach \/ ebs_wait_poll \/ ebs_wait_timeout \/ ebs_wait \/ ebs_delete
    \/ s3_list \/ s3_versions \/ s3_markers \/ s3_delete

Spec == Init /\ [][Next]_vars

\* ------------------------------------------------------------ the web route
\* The (kind, id) pairs of a selection, in request order then id order.
RECURSIVE Flatten(_)
Flatten(sel) ==
    IF sel = <<>> THEN <<>>
    ELSE [i \in 1..Len(sel[1].ids) |-> <<sel[1].kind, sel[1].ids[i]>>] \o Flatten(Tail(sel))

\* The route answered success for a profile whose credentials work.
Answered == pc = "done" /\ response.status = 200 /\ creds = "ok"

\* C1: the result sequence of a deletion batch has exactly one result per
\* requested id, of any kind, in request order then id order.
C1_OneResultPerRequestedId ==
    Answered =>
        [i \in 1..Len(response.results) |->
            <<response.results[i].type, response.results[i].resource>>] = Flatten(selections)

DeleteOps == {"delete_function", "delete_rest_api", "delete_queue", "terminate_instances",
              "delete_log_group", "delete_volume", "detach_volume", "delete_objects",
              "delete_bucket", "delete_db_instance", "delete_secret"}

\* C2: no provider delete call is issued unless a confirmation prompt was
\* answered affirmatively before it.
C2_NoDeleteWithoutConfirmation ==
    (\E k \in 1..Len(calls) : calls[k].op \in DeleteOps /\ calls[k].out = "ok")
        => confirmation = "y"

\* C3: every id of a kind without a handler gets one Failed result whose cause
\* is UnsupportedKind.
C3_UnsupportedKindIsReported ==
    Answered =>
        \A r \in 1..Len(selections) : \A i \in 1..Len(selections[r].ids) :
            selections[r].kind \notin deletion_methods =>
                \E k \in 1..Len(response.results) :
                    response.results[k] =
                        Failed(selections[r].ids[i], selections[r].kind, "UnsupportedKind")

\* C8: without a resolvable profile or without credentials the run stops with
\* a configuration error: no per-resource result is produced for it, and a
\* request that names resources is not answered with success.
C8_ConfigurationErrorStopsTheRun ==
    creds # "ok" =>
        /\ results = <<>> /\ all_results = <<>>
        /\ (pc = "done" /\ SumLens(selections) > 0) => response.status # 200

\* ---------------------------------------------------------------- delete_ebs
IsCall(k, op, v, out) ==
    /\ k \in 1..Len(calls)
    /\ calls[k].op = op /\ calls[k].arg = v /\ calls[k].out = out

Described(k, v, what) == IsCall(k, "describe_volumes", v, "ok") /\ calls[k].ret = {what}

\* The results produced so far, in order.
Reported == IF pc \in {"dispatch", "handler", "return"} THEN all_results \o results
            ELSE all_results

EbsOps == {"describe_volumes", "detach_volume", "wait_volume_available", "delete_volume"}
\* The provider calls after which delete_ebs returns, and the result each gives.
EndsEbs(c) ==
    /\ c.op \in EbsOps
    /\ (c.out # "ok" \/ c.op = "delete_volume"
            \/ (c.op = "describe_volumes" /\ c.ret = {"empty"}))
EbsResultOf(c) ==
    IF c.out # "ok" THEN Failed(c.arg, "ebs", c.out)
    ELSE IF c.op = "delete_volume" THEN Deleted(c.arg, "ebs")
    ELSE Failed(c.arg, "ebs", "IndexError")
IsEbsResult(r) == r.type = "ebs"
EbsEnds == SelectSeq(calls, EndsEbs)

\* C5: delete_volume is issued only directly after a describe that reported no
\* attachment, or after describe (attached), detach and wait, all successful and
\* in that order; detach and wait are issued only for an attached volume; a
\* failed describe, detach or wait ends the delete of that id as Failed.
C5_DetachWaitBeforeDelete ==
    /\ \A k \in 1..Len(calls) :
        /\ calls[k].op = "delete_volume" =>
            \/ Described(k - 1, calls[k].arg, "unattached")
            \/ /\ Described(k - 3, calls[k].arg, "attached")
               /\ IsCall(k - 2, "detach_volume", calls[k].arg, "ok")
               /\ IsCall(k - 1, "wait_volume_available", calls[k].arg, "ok")
        /\ calls[k].op = "detach_volume" => Described(k - 1, calls[k].arg, "attached")
        /\ calls[k].op = "wait_volume_available" =>
            IsCall(k - 1, "detach_volume", calls[k].arg, "ok")
    /\ SelectSeq(Reported, IsEbsResult) =
        [k \in 1..Len(EbsEnds) |-> EbsResultOf(EbsEnds[k])]

CountCalls(op) == Cardinality({k \in 1..Len(calls) : calls[k].op = op})

\* One attached and one unattached volume were deleted with exactly one
\* detach-wait cycle.
C5_Witness ==
    /\ Answered
    /\ \E a, b \in 1..Len(calls) : \E v, w \in {"r1", "r2"} :
        /\ v # w
        /\ Described(a, v, "attached") /\ Described(b, w, "unattached")
    /\ CountCalls("detach_volume") = 1 /\ CountCalls("wait_volume_available") = 1
    /\ CountCalls("delete_volume") = 2
    /\ \A k \in 1..Len(response.results) : response.results[k].status = "deleted"

\* ------------------------------------------------- delete_ebs, block volumes only
\* The deletion route serving batches of block volumes; the server runs a
\* request it has accepted to its end, one statement after the other.
EbsSelections == {sel \in Selections : \A i \in 1..Len(sel) : sel[i].kind = "ebs"}

InitEbs ==
    /\ Init
    /\ selections \in EbsSelections

NextEbs ==
    \/ route_expired \/ route_noprofile \/ route_start
    \/ route_skip \/ route_call \/ route_extend \/ route_respond
    \/ dispatch_next \/ dispatch_end
    \/ ebs_describe_raise \/ ebs_describe_empty \/ ebs_describe
    \/ ebs_detach \/ ebs_wait_poll \/ ebs_wait_timeout \/ ebs_wait \/ ebs_delete

SpecEbs == InitEbs /\ [][NextEbs]_vars /\ WF_vars(NextEbs)

InWait == pc = "handler" /\ hpc = "ebs_wait"
TimedOut(k) ==
    /\ k \in 1..Len(calls)
    /\ calls[k].op = "wait_volume_available" /\ calls[k].out = MaxAttemptsExceeded

\* The waiter stays within its budget of polls, and a wait that used it up
\* without seeing the volume available ends the delete of that volume as
\* Failed with the waiter's timeout as cause and no delete_volume call.
WaitStaysInBudget ==
    /\ attempts < MaxAttempts
    /\ attempts > 0 => InWait
    /\ \A k \in 1..Len(calls) :
        TimedOut(k) =>
            /\ \A j \in 1..Len(calls) :
                ~(calls[j].op = "delete_volume" /\ calls[j].arg = calls[k].arg)
            /\ \E r \in 1..Len(Reported) :
                Reported[r] = Failed(calls[k].arg, "ebs", MaxAttemptsExceeded)

Arn(prefix, last) == [i \in 1..Len(prefix) |-> <<prefix[i]>>] \o <<last>>

ArnPool == {
    Arn(<<"arn", "aws", "ec2", "r", "1">>, <<"instance", "i-1">>),
    Arn(<<"arn", "aws", "ec2", "r", "1">>, <<"volume", "vol-1">>),
    Arn(<<"arn", "aws", "rds", "r", "1">>, <<"db", "db-1">>),
    Arn(<<"arn", "aws", "rds", "r", "1", "db">>, <<"db-1">>),
    Arn(<<"arn", "aws", "sqs", "r", "1">>, <<"q-1">>),
    Arn(<<"arn", "aws", "secretsmanager", "r", "1", "secret">>, <<"s-1">>),
    Arn(<<"arn", "aws", "s3", "", "">>, <<"b-1">>),
    Arn(<<"arn", "aws", "s3", "", "">>, <<"b-1", "key">>),
    Arn(<<"arn", "aws", "s3">>, <<"b-1", "key">>),
    Arn(<<>>, <<"i-1">>) }

ArnLists == UNION {[1..n -> ArnPool] : n \in 0..MaxArns}

\* '/' in arn
HasSlash(arn) == \E f \in 1..Len(arn) : Len(arn[f]) > 1
\* The last field holding a '/'.
LastSlashField(arn) ==
    CHOOSE f \in 1..Len(arn) : Len(arn[f]) > 1 /\ \A g \in (f + 1)..Len(arn) : Len(arn[g]) = 1

\* arn.split(':')[2] and arn.split(':')[5] raise IndexError on a short ARN.
ParseRaises(arn) == Len(arn) < 3 \/ (HasSlash(arn) /\ Len(arn) < 6)
\* service = arn.split(':')[2]
ServiceOf(arn) == arn[3]
\* resource_type = arn.split(':')[5].split('/')[0] if '/' in arn else ''
ResourceTypeOf(arn) == IF HasSlash(arn) THEN arn[6][1] ELSE ""
\* resource_id = arn.split('/')[-1] if '/' in arn else arn.split(':')[-1]
\* (the text after the last '/', kept as its ':'-separated parts)
ResourceIdOf(arn) ==
    IF HasSlash(arn)
    THEN LET f == LastSlashField(arn)
         IN <<arn[f][Len(arn[f])]>> \o [g \in 1..(Len(arn) - f) |-> arn[f + g][1]]
    ELSE <<arn[Len(arn)][1]>>

\* The if/elif chain of delete_resource.
BranchOf(arn) ==
    IF ServiceOf(arn) = <<"ec2">> /\ ResourceTypeOf(arn) = "instance" THEN "ec2"
    ELSE IF ServiceOf(arn) = <<"rds">> /\ ResourceTypeOf(arn) = "db" THEN "rds"
    ELSE IF ServiceOf(arn) = <<"sqs">> THEN "sqs"
    ELSE IF ServiceOf(arn) = <<"secretsmanager">> THEN "secretsmanager"
    ELSE IF ServiceOf(arn) = <<"s3">> THEN "s3"
    ELSE "unsupported"

CurArn == arns[ai]
Line(text, about) == [text |-> text, about |-> about]
Exit(code, msg) == [status |-> code, body |-> msg, results |-> <<>>]

\* What main prints and exits with when an exception leaves delete_resource.
ExitFor(e) ==
    IF e = "NoCredentialsError" THEN Exit(1, "No credentials found")
    ELSE Exit(1, "Error during deletion process")

\* One branch of delete_resource: the provider call, then the returned text is
\* printed by main. Only ClientError is caught inside delete_resource; any other
\* exception reaches main's handlers, which print and sys.exit(1).
ArnCall(branch, op, done) ==
    /\ pc = "arn_loop" /\ ai <= Len(arns)
    /\ ~ParseRaises(CurArn) /\ BranchOf(CurArn) = branch
    /\ \E out \in Outcomes :
        /\ Call(op, ResourceIdOf(CurArn), out, {})
        /\ IF out = "ok"
           THEN /\ printed' = Append(printed, Line(done, ResourceIdOf(CurArn)))
                /\ ai' = ai + 1
                /\ UNCHANGED <<pc, response>>
           ELSE IF out = "ClientError"
           THEN /\ printed' = Append(printed, Line("Error deleting", CurArn))
                /\ ai' = ai + 1
                /\ UNCHANGED <<pc, response>>
           ELSE /\ response' = ExitFor(out)
                /\ pc' = "exit"
                /\ UNCHANGED <<printed, ai>>
    /\ UNCHANGED <<parVars, webVars, invVars, jsonfile, arns, creds, session, selections, ri,
                   ii, hpc, results, all_results, confirmation, volume, attempts, listing,
                   pageNo>>

arn_ec2 ==
    /\ pc = "arn_loop"
    /\ ArnCall("ec2", "terminate_instances", "Terminated EC2 instance")

arn_rds ==
    /\ pc = "arn_loop"
    /\ ArnCall("rds", "delete_db_instance", "Deleted RDS instance")

arn_sqs ==
    /\ pc = "arn_loop"
    /\ ArnCall("sqs", "delete_queue", "Deleted SQS queue")

arn_secretsmanager ==
    /\ pc = "arn_loop"
    /\ ArnCall("secretsmanager", "delete_secret", "Deleted Secrets Manager secret")

arn_s3 ==
    /\ pc = "arn_loop"
    /\ ArnCall("s3", "delete_bucket", "Deleted S3 bucket")

arn_unsupported ==
    /\ pc = "arn_loop" /\ ai <= Len(arns)
    /\ ~ParseRaises(CurArn) /\ BranchOf(CurArn) = "unsupported"
    /\ printed' = Append(printed, Line("Unsupported resource type for deletion", CurArn))
    /\ ai' = ai + 1
    /\ UNCHANGED <<parVars, webVars, invVars, jsonfile, arns, creds, session, selections, pc,
                   ri, ii, hpc, results, all_results, calls, faults, response, confirmation,
                   volume, attempts, listing, pageNo>>

\* The IndexError of a short ARN is no ClientError: it leaves delete_resource
\* and main's except Exception prints it and exits.
arn_parse_raises ==
    /\ pc = "arn_loop" /\ ai <= Len(arns)
    /\ ParseRaises(CurArn)
    /\ response' = ExitFor("IndexError")
    /\ pc' = "exit"
    /\ UNCHANGED <<parVars, webVars, invVars, arnVars, creds, session, selections, ri, ii, hpc,
                   results, all_results, calls, faults, confirmation, volume, attempts, listing,
                   pageNo>>

main_unreadable ==
    /\ pc = "arn_start" /\ jsonfile # "ok"
    /\ response' = Exit(1, "Error reading JSON file")
    /\ pc' = "exit"
    /\ UNCHANGED <<parVars, webVars, invVars, arnVars, creds, session, selections, ri, ii, hpc,
                   results, all_results, calls, faults, confirmation, volume, attempts, listing,
                   pageNo>>

main_no_arns ==
    /\ pc = "arn_start" /\ jsonfile = "ok" /\ arns = <<>>
    /\ response' = Exit(0, "No ARNs found")
    /\ pc' = "exit"
    /\ UNCHANGED <<parVars, webVars, invVars, arnVars, creds, session, selections, ri, ii, hpc,
                   results, all_results, calls, faults, confirmation, volume, attempts, listing,
                   pageNo>>

\* input(...).strip().lower() of what the operator may type.
Typed == {"y", "Y", " y ", "yes", "n", ""}
StripLower(t) == IF t \in {"y", "Y", " y "} THEN "y" ELSE t

\* Every arn is printed, then the prompt; anything but 'y' cancels.
main_confirm ==
    /\ pc = "arn_start" /\ jsonfile = "ok" /\ arns # <<>>
    /\ \E t \in Typed :
        /\ confirmation' = StripLower(t)
        /\ IF confirmation' # "y"
           THEN response' = Exit(0, "Deletion cancelled") /\ pc' = "exit"
           ELSE pc' = "arn_session" /\ UNCHANGED response
    /\ UNCHANGED <<parVars, webVars, invVars, arnVars, creds, session, selections, ri, ii, hpc,
                   results, all_results, calls, faults, volume, attempts, listing, pageNo>>

\* boto3.Session(profile_name=args.profile)
main_session ==
    /\ pc = "arn_session"
    /\ IF creds = "noprofile"
       THEN response' = Exit(1, "Profile not found") /\ pc' = "exit" /\ UNCHANGED ai
       ELSE ai' = 1 /\ pc' = "arn_loop" /\ UNCHANGED response
    /\ UNCHANGED <<parVars, webVars, invVars, jsonfile, arns, printed, creds, session,
                   selections, ri, ii, hpc, results, all_results, calls, faults, confirmation,
                   volume, attempts, listing, pageNo>>

\* The loop ran to its end: main returns.
main_return ==
    /\ pc = "arn_loop" /\ ai > Len(arns)
    /\ response' = Exit(0, "")
    /\ pc' = "exit"
    /\ UNCHANGED <<parVars, webVars, invVars, arnVars, creds, session, selections, ri, ii, hpc,
                   results, all_results, calls, faults, confirmation, volume, attempts, listing,
                   pageNo>>

InitArn ==
    /\ creds \in {"ok", "nocreds", "noprofile"}
    /\ jsonfile \in {"ok", "unreadable"}
    /\ arns \in (IF jsonfile = "ok" THEN ArnLists ELSE {<<>>})
    /\ listing \in Listings
    /\ pc = "arn_start"
    /\ ai = 0 /\ printed = <<>>
    /\ calls = <<>> /\ faults = 0
    /\ response = NoResponse
    /\ confirmation = "none"
    /\ session = NoSession /\ selections = <<>>
    /\ ri = 0 /\ ii = 0 /\ hpc = "none"
    /\ results = <<>> /\ all_results = <<>>
    /\ volume = NoVolume /\ attempts = 0 /\ pageNo = 0
    /\ request = NoSession /\ npages = 1 /\ buckets = <<>>
    /\ inventory = <<>> /\ ki = 0 /\ found = <<>> /\ bi = 0
    /\ threads = <<>> /\ volumes = <<>>
    /\ destroyer = NoSession /\ data = NoSession /\ history = <<>>

NextArn ==
    \/ main_unreadable \/ main_no_arns \/ main_confirm \/ main_session \/ main_return
    \/ arn_ec2 \/ arn_rds \/ arn_sqs \/ arn_secretsmanager \/ arn_s3
    \/ arn_unsupported \/ arn_parse_raises

SpecArn == InitArn /\ [][NextArn]_vars

\* main went through the prompt with working credentials and has ended.
ArnRunEnded == pc = "exit" /\ jsonfile = "ok" /\ confirmation = "y" /\ creds = "ok"

\* C4: a per-resource delete never raises past its own boundary, so every
\* confirmed ARN of the list gets its own result and the run ends normally.
C4_EveryArnIsAccountedFor ==
    ArnRunEnded => (Len(printed) = Len(arns) /\ response.status = 0)

\* The objects the environment lists for a bucket, over all pages.
ListedObjects ==
    UNION {Objects(p, listing[p].versions \cup listing[p].markers) : p \in 1..Len(listing)}

\* C6: before a delete_bucket call, successful delete_objects calls for that
\* bucket have covered every listed object version and delete marker.
C6_BucketDrainedBeforeDelete ==
    \A k \in 1..Len(calls) :
        (calls[k].op = "delete_bucket" /\ creds = "ok") =>
            \A o \in ListedObjects :
                \E j \in 1..(k - 1) :
                    /\ IsCall(j, "delete_objects", calls[k].arg, "ok")
                    /\ o \in calls[j].ret

\* C9: a terminate_instances call directly follows the attempt to clear the
\* instance's deletion protection, whatever that attempt's outcome.
C9_ProtectionClearedBeforeTerminate ==
    \A k \in 1..Len(calls) :
        (calls[k].op = "terminate_instances" /\ creds = "ok") =>
            /\ k > 1
            /\ calls[k - 1].op = "modify_instance_attribute"
            /\ calls[k - 1].arg = calls[k].arg

\* ------------------------------------------------- wipeIt/aws_inventory.py
\* The order of the dict literal of discover_all.
DiscoverOrder == <<"lambda", "api_gateway", "sqs", "ec2", "cloudwatch_logs", "ebs", "s3">>
CurKind == DiscoverOrder[ki]

\* The listing call of each kind.
ListOp == [lambda |-> "list_functions", api_gateway |-> "get_rest_apis",
           sqs |-> "list_queues", ec2 |-> "describe_instances",
           cloudwatch_logs |-> "describe_log_groups", ebs |-> "describe_volumes",
           s3 |-> "list_buckets"]

\* environment: what page p of a kind's listing holds. A page of instances
\* holds a live and a terminated one.
PageItems(kind, p) ==
    IF kind = "ec2"
    THEN <<[id |-> IdPool[p], state |-> "running"], [id |-> IdPool[p + 2], state |-> "terminated"]>>
    ELSE <<[id |-> IdPool[p], state |-> "n/a"]>>

\* discover_ec2 skips terminated instances; every kind keeps the provider's id.
IsLive(item) == item.state # "terminated"
Descriptor(kind, item) == [id |-> item.id, kind |-> kind]
Describe(kind, items) ==
    LET kept == IF kind = "ec2" THEN SelectSeq(items, IsLive) ELSE items
    IN [i \in 1..Len(kept) |-> Descriptor(kind, kept[i])]

\* A discover_* that hands back what it had collected when the listing raised.
OnListErrorPartial(acc) == acc

\* except Exception: log the error and return []
OnListError(acc) == <<>>

\* discover_*'s return: the kind's entry of the inventory dict, then the next kind.
Return(kind, list) ==
    /\ inventory' = [k \in DOMAIN inventory \cup {kind} |->
                        IF k = kind THEN list ELSE inventory[k]]
    /\ ki' = ki + 1
    /\ found' = <<>>
    /\ pageNo' = 0
    /\ bi' = 0
    /\ hpc' = "none"

\* One page of a paginated listing: for page in paginator.paginate(): append.
ListPage(kind) ==
    /\ pc = "discover" /\ ki <= Len(DiscoverOrder) /\ CurKind = kind
    /\ \E out \in Outcomes :
        /\ Call(ListOp[kind], kind, out, {pageNo + 1})
        /\ IF out # "ok"
           THEN Return(kind, OnListError(found))
           ELSE IF pageNo + 1 < npages
           THEN /\ found' = found \o Describe(kind, PageItems(kind, pageNo + 1))
                /\ pageNo' = pageNo + 1
                /\ UNCHANGED <<inventory, ki, bi, hpc>>
           ELSE Return(kind, found \o Describe(kind, PageItems(kind, pageNo + 1)))
    /\ UNCHANGED <<parVars, webVars, arnVars, request, npages, buckets, creds, session,
                   selections, pc, ri, ii, results, all_results, response, confirmation, volume,
                   attempts, listing>>

discover_lambda ==
    /\ pc = "discover"
    /\ ListPage("lambda")

discover_api_gateway ==
    /\ pc = "discover"
    /\ ListPage("api_gateway")

discover_ec2 ==
    /\ pc = "discover"
    /\ ListPage("ec2")

discover_cloudwatch_logs ==
    /\ pc = "discover"
    /\ ListPage("cloudwatch_logs")

discover_ebs ==
    /\ pc = "discover"
    /\ ListPage("ebs")

\* discover_sqs: one list_queues call, response.get('QueueUrls', []).
discover_sqs ==
    /\ pc = "discover" /\ ki <= Len(DiscoverOrder) /\ CurKind = "sqs"
    /\ \E out \in Outcomes :
        /\ Call("list_queues", "sqs", out, {})
        /\ IF out # "ok"
           THEN Return("sqs", OnListError(found))
           ELSE Return("sqs", Describe("sqs", PageItems("sqs", 1)))
    /\ UNCHANGED <<parVars, webVars, arnVars, request, npages, buckets, creds, session,
                   selections, pc, ri, ii, results, all_results, response, confirmation, volume,
                   attempts, listing>>

\* A bucket's LocationConstraint is null for the provider's default region.
Null == "null"
DefaultRegion == "us-east-1"

\* A discover_s3 that compares the recorded constraint as it is.
BucketRegionRaw(loc) == loc

\* if bucket_region is None: bucket_region = 'us-east-1'
BucketRegion(loc) == IF loc = Null THEN DefaultRegion ELSE loc

\* response = client.list_buckets()
s3_list_buckets ==
    /\ pc = "discover" /\ ki <= Len(DiscoverOrder) /\ CurKind = "s3" /\ hpc = "none"
    /\ \E out \in Outcomes :
        /\ Call("list_buckets", "s3", out, {})
        /\ IF out # "ok"
           THEN Return("s3", OnListError(found))
           ELSE /\ hpc' = "s3_locations"
                /\ bi' = 1
                /\ UNCHANGED <<inventory, ki, found, pageNo>>
    /\ UNCHANGED <<parVars, webVars, arnVars, request, npages, buckets, creds, session,
                   selections, pc, ri, ii, results, all_results, response, confirmation, volume,
                   attempts, listing>>

\* for bucket in response['Buckets']: the region lookup in its own try; a
\* lookup that raises only logs a warning and the loop goes on.
s3_location ==
    /\ pc = "discover" /\ hpc = "s3_locations" /\ bi <= Len(buckets)
    /\ \E out \in Outcomes :
        /\ Call("get_bucket_location", buckets[bi].Name, out, {})
        /\ found' = IF out = "ok" /\ BucketRegion(buckets[bi].LocationConstraint) = request.region
                    THEN Append(found, Descriptor("s3", [id |-> buckets[bi].Name]))
                    ELSE found
    /\ bi' = bi + 1
    /\ UNCHANGED <<parVars, webVars, arnVars, request, npages, buckets, inventory, ki, creds,
                   session, selections, pc, ri, ii, hpc, results, all_results, response,
                   confirmation, volume, attempts, listing, pageNo>>

s3_return ==
    /\ pc = "discover" /\ hpc = "s3_locations" /\ bi > Len(buckets)
    /\ Return("s3", found)
    /\ UNCHANGED <<parVars, webVars, arnVars, request, npages, buckets, creds, session,
                   selections, pc, ri, ii, results, all_results, calls, faults, response,
                   confirmation, volume, attempts, listing>>

\* ------------------------------------------ wipeIt/app.py: POST /api/inventory
inv_bad_request ==
    /\ pc = "inv_start"
    /\ (request.profile = "" \/ request.region = "")
    /\ response' = [status |-> 400, body |-> "Profile and region are required",
                    results |-> <<>>]
    /\ pc' = "done"
    /\ UNCHANGED <<parVars, webVars, arnVars, invVars, creds, session, selections, ri, ii, hpc,
                   results, all_results, calls, faults, confirmation, volume, attempts, listing,
                   pageNo>>

\* The session is written before AWSInventory(profile, region) is built, whose
\* boto3.Session raises ProfileNotFound for an unknown profile.
inv_noprofile ==
    /\ pc = "inv_start"
    /\ request.profile # "" /\ request.region # ""
    /\ creds = "noprofile"
    /\ session' = request
    /\ response' = [status |-> 500, body |-> "ProfileNotFound", results |-> <<>>]
    /\ pc' = "done"
    /\ UNCHANGED <<parVars, webVars, arnVars, invVars, creds, selections, ri, ii, hpc, results,
                   all_results, calls, faults, confirmation, volume, attempts, listing, pageNo>>

inv_start ==
    /\ pc = "inv_start"
    /\ request.profile # "" /\ request.region # ""
    /\ creds # "noprofile"
    /\ session' = request
    /\ ki' = 1
    /\ pc' = "discover"
    /\ UNCHANGED <<parVars, webVars, arnVars, request, npages, buckets, inventory, found, bi,
                   creds, selections, ri, ii, hpc, results, all_results, calls, faults,
                   response, confirmation, volume, attempts, listing, pageNo>>

\* return jsonify({'success': True, 'resources': resources})
inv_respond ==
    /\ pc = "discover" /\ ki > Len(DiscoverOrder)
    /\ response' = [status |-> 200, body |-> "success", results |-> inventory]
    /\ pc' = "done"
    /\ UNCHANGED <<parVars, webVars, arnVars, invVars, creds, session, selections, ri, ii, hpc,
                   results, all_results, calls, faults, confirmation, volume, attempts, listing,
                   pageNo>>

PageCounts == {1, 2}
BucketNames == <<"b1", "b2", "b3", "b4">>
Locations == {Null, "us-east-1", "eu-west-1"}
BucketWorlds ==
    UNION {{[i \in 1..n |-> [Name |-> BucketNames[i], LocationConstraint |-> loc[i]]] :
                loc \in [1..n -> Locations]} : n \in 0..MaxBuckets}
InventoryRequests == [profile : {"", "p1"}, region : {"", "us-east-1", "eu-west-1"}]

\* A POST /api/inventory has arrived; nothing has run yet.
InitInv ==
    /\ creds \in {"ok", "nocreds", "noprofile"}
    /\ request \in InventoryRequests
    /\ npages \in PageCounts
    /\ buckets \in BucketWorlds
    /\ pc = "inv_start"
    /\ inventory = <<>> /\ ki = 0 /\ found = <<>> /\ bi = 0
    /\ threads = <<>> /\ volumes = <<>>
    /\ destroyer = NoSession /\ data = NoSession /\ history = <<>>
    /\ session \in WebSessions
    /\ calls = <<>> /\ faults = 0
    /\ response = NoResponse
    /\ confirmation = "none"
    /\ selections = <<>> /\ listing = EmptyListing
    /\ ri = 0 /\ ii = 0 /\ hpc = "none"
    /\ results = <<>> /\ all_results = <<>>
    /\ volume = NoVolume /\ attempts = 0 /\ pageNo = 0
    /\ jsonfile = "ok" /\ arns = <<>> /\ ai = 0 /\ printed = <<>>

NextInv ==
    \/ inv_bad_request \/ inv_noprofile \/ inv_start \/ inv_respond
    \/ discover_lambda \/ discover_api_gateway \/ discover_sqs \/ discover_ec2
    \/ discover_cloudwatch_logs \/ discover_ebs
    \/ s3_list_buckets \/ s3_location \/ s3_return

SpecInv == InitInv /\ [][NextInv]_vars

\* The inventory route answered with the inventory.
InventoryAnswered == pc = "done" /\ response.status = 200 /\ response.body = "success"

\* The listing call of kind k raised at some page.
ListingFailed(k) == \E j \in 1..Len(calls) : calls[j].op = ListOp[k] /\ calls[j].out # "ok"
LookupOk(name) == \E j \in 1..Len(calls) : IsCall(j, "get_bucket_location", name, "ok")

\* What the environment holds for a kind: its live items over all the pages
\* (list_queues is one call, not paginated).
\* (the first item of a page of instances is the live one)
RECURSIVE LiveIds(_, _)
LiveIds(kind, p) ==
    IF p = 0 THEN <<>> ELSE LiveIds(kind, p - 1) \o <<PageItems(kind, p)[1].id>>
PagesOf(kind) == IF kind = "sqs" THEN 1 ELSE npages
InRegion(b) ==
    \/ b.LocationConstraint = Null /\ request.region = "us-east-1"
    \/ b.LocationConstraint # Null /\ b.LocationConstraint = request.region
IsListedBucket(b) == LookupOk(b.Name) /\ InRegion(b)
BucketIds == LET kept == SelectSeq(buckets, IsListedBucket)
             IN [i \in 1..Len(kept) |-> kept[i].Name]
ExpectedIds(kind) == IF kind = "s3" THEN BucketIds ELSE LiveIds(kind, PagesOf(kind))
IdsOf(list) == [i \in 1..Len(list) |-> list[i].id]

\* C7: the inventory discover_all returns has every kind of the engine as a
\* key; a kind whose listing raised maps to the empty list, and every other
\* kind maps to what the provider holds for it, whichever other kinds failed.
C7_EveryKindIsAKey ==
    InventoryAnswered =>
        /\ DOMAIN response.results = deletion_methods
        /\ \A k \in deletion_methods :
            IF ListingFailed(k) THEN response.results[k] = <<>>
            ELSE IdsOf(response.results[k]) = ExpectedIds(k)

\* The listing of one kind raised on its second page, and the kinds before and
\* after it are reported in full.
C7_Witness ==
    /\ InventoryAnswered /\ creds = "ok" /\ npages = 2
    /\ \E j \in 1..Len(calls) :
        /\ calls[j].op = "describe_instances" /\ calls[j].ret = {2} /\ calls[j].out # "ok"
    /\ response.results["ec2"] = <<>>
    /\ Len(response.results["lambda"]) = 2
    /\ Len(response.results["ebs"]) = 2

\* C10: with the bucket list obtained, a bucket is in the inventory exactly if
\* its region lookup succeeded and its region, null standing for us-east-1,
\* is the requested one.
C10_BucketsOfTheRequestedRegion ==
    (InventoryAnswered /\ ~ListingFailed("s3")) =>
        \A b \in 1..Len(buckets) :
            (\E i \in 1..Len(response.results["s3"]) :
                response.results["s3"][i].id = buckets[b].Name)
            <=> (LookupOk(buckets[b].Name) /\ InRegion(buckets[b]))

\* A bucket with no recorded region is listed for us-east-1 although the region
\* lookup of the bucket before it raised.
C10_Witness ==
    /\ InventoryAnswered /\ ~ListingFailed("s3") /\ request.region = "us-east-1"
    /\ Len(buckets) = 2
    /\ ~LookupOk(buckets[1].Name)
    /\ buckets[2].LocationConstraint = Null
    /\ IdsOf(response.results["s3"]) = <<buckets[2].Name>>

\* ------------------------------ wipeIt/app.py: concurrent POST /api/delete
\* app.run serves each request in a thread of its own, so two deletion
\* requests run delete_resources side by side, each on its own AWSDestroyer:
\* the threads share nothing but the provider, which keeps each volume's state.
Threads == {1, 2}
ParIds == {"r1", "r2"}
\* resource_ids of a request: one id, or the same id twice.
ParIdLists == {<<v>> : v \in ParIds} \cup {<<v, v>> : v \in ParIds}

seqVars == <<creds, session, selections, pc, ri, ii, hpc, results, all_results, response,
             confirmation, volume, attempts, listing, pageNo, arnVars, invVars, webVars>>

\* The locals of a serving thread.
Thread(ids) == [ids |-> ids, pc |-> "idle", ii |-> 0, hpc |-> "none", volume |-> NoVolume,
                attempts |-> 0, results |-> <<>>, response |-> NoResponse]
IdOf(t) == threads[t].ids[threads[t].ii]

\* return result; results.append(result); next resource_id
FinishOf(t, r) ==
    threads' = [threads EXCEPT ![t].results = Append(@, r), ![t].ii = @ + 1,
                               ![t].pc = "dispatch", ![t].hpc = "none",
                               ![t].attempts = 0]
GoOn(t, next) == threads' = [threads EXCEPT ![t].hpc = next, ![t].attempts = 0]

\* The session check passes, AWSDestroyer(profile, region), all_results = [],
\* delete_resources('ebs', resource_ids): results = [].
par_start ==
    \E t \in Threads :
        /\ threads[t].pc = "idle"
        /\ session.profile # "" /\ session.region # ""
        /\ threads' = [threads EXCEPT ![t].pc = "dispatch", ![t].ii = 1]
        /\ UNCHANGED <<seqVars, calls, faults, volumes>>

\* for resource_id in resource_ids: result = deletion_methods[resource_type](resource_id)
par_dispatch ==
    \E t \in Threads :
        /\ threads[t].pc = "dispatch" /\ threads[t].ii <= Len(threads[t].ids)
        /\ threads' = [threads EXCEPT ![t].pc = "handler", ![t].hpc = "ebs"]
        /\ UNCHANGED <<seqVars, calls, faults, volumes>>

\* return results; all_results.extend(results); return jsonify(...)
par_respond ==
    \E t \in Threads :
        /\ threads[t].pc = "dispatch" /\ threads[t].ii > Len(threads[t].ids)
        /\ threads' = [threads EXCEPT ![t].pc = "done",
                           ![t].response = [status |-> 200, body |-> "success",
                                            results |-> threads[t].results]]
        /\ UNCHANGED <<seqVars, calls, faults, volumes>>

\* describe_volumes: the provider knows no deleted volume; a volume in use or
\* being detached is reported with its attachment.
par_describe ==
    \E t \in Threads :
        /\ threads[t].pc = "handler" /\ threads[t].hpc = "ebs"
        /\ IF volumes[IdOf(t)] = "deleted"
           THEN /\ Call("describe_volumes", IdOf(t), "ClientError", {})
                /\ FinishOf(t, Failed(IdOf(t), "ebs", "ClientError"))
           ELSE LET v == [Attachments |-> IF volumes[IdOf(t)] = "available" THEN <<>>
                                          ELSE <<"i-1">>]
                IN /\ Call("describe_volumes", IdOf(t), "ok",
                           {IF v.Attachments = <<>> THEN "unattached" ELSE "attached"})
                   /\ threads' = [threads EXCEPT ![t].volume = v,
                                                 ![t].hpc = AfterDescribe(v)]
        /\ UNCHANGED <<seqVars, volumes>>

\* detach_volume: accepted for a volume in use, refused for one that is
\* available or deleted; for one already being detached the provider may do either.
DetachOutcomes(state) ==
    IF state = "in-use" THEN {"ok"}
    ELSE IF state = "detaching" THEN {"ok", "ClientError"}
    ELSE {"ClientError"}

par_detach ==
    \E t \in Threads :
        /\ threads[t].pc = "handler" /\ threads[t].hpc = "ebs_detach"
        /\ \E out \in DetachOutcomes(volumes[IdOf(t)]) :
            /\ Call("detach_volume", IdOf(t), out, {})
            /\ IF out = "ok"
               THEN /\ GoOn(t, "ebs_wait")
                    /\ volumes' = [volumes EXCEPT ![IdOf(t)] = "detaching"]
               ELSE /\ FinishOf(t, Failed(IdOf(t), "ebs", out))
                    /\ UNCHANGED volumes
        /\ UNCHANGED seqVars

\* environment: the provider completes a detachment, or never does.
provider_detaches ==
    \E v \in ParIds :
        /\ volumes[v] = "detaching"
        /\ volumes' = [volumes EXCEPT ![v] = "available"]
        /\ UNCHANGED <<seqVars, calls, faults, threads>>

\* waiter.wait: a poll that finds the volume not yet available, with polls left.
par_wait_poll ==
    \E t \in Threads :
        /\ threads[t].pc = "handler" /\ threads[t].hpc = "ebs_wait"
        /\ volumes[IdOf(t)] \in {"in-use", "detaching"}
        /\ ~WaiterGivesUp(threads[t].attempts + 1)
        /\ threads' = [threads EXCEPT ![t].attempts = @ + 1]
        /\ UNCHANGED <<seqVars, calls, faults, volumes>>

\* waiter.wait returns on an available volume and raises on a deleted one or
\* when the last poll of its budget finds the volume not yet available.
WaitOutcome(state) ==
    IF state = "available" THEN "ok"
    ELSE IF state = "deleted" THEN "ClientError"
    ELSE MaxAttemptsExceeded

par_wait ==
    \E t \in Threads :
        /\ threads[t].pc = "handler" /\ threads[t].hpc = "ebs_wait"
        /\ volumes[IdOf(t)] \in {"in-use", "detaching"}
            => WaiterGivesUp(threads[t].attempts + 1)
        /\ LET out == WaitOutcome(volumes[IdOf(t)])
           IN /\ Call("wait_volume_available", IdOf(t), out, {})
              /\ IF out = "ok" THEN GoOn(t, "ebs_delete")
                 ELSE FinishOf(t, Failed(IdOf(t), "ebs", out))
        /\ UNCHANGED <<seqVars, volumes>>

\* delete_volume: the provider deletes an available volume and refuses any other.
par_delete ==
    \E t \in Threads :
        /\ threads[t].pc = "handler" /\ threads[t].hpc = "ebs_delete"
        /\ IF volumes[IdOf(t)] = "available"
           THEN /\ Call("delete_volume", IdOf(t), "ok", {})
                /\ FinishOf(t, Deleted(IdOf(t), "ebs"))
                /\ volumes' = [volumes EXCEPT ![IdOf(t)] = "deleted"]
           ELSE /\ Call("delete_volume", IdOf(t), "ClientError", {})
                /\ FinishOf(t, Failed(IdOf(t), "ebs", "ClientError"))
                /\ UNCHANGED volumes
        /\ UNCHANGED seqVars

\* Two POST /api/delete of one session have arrived, each naming volumes.
InitPar ==
    /\ threads \in [Threads -> {Thread(ids) : ids \in ParIdLists}]
    /\ volumes \in [ParIds -> {"in-use", "available"}]
    /\ creds = "ok"
    /\ session = [profile |-> "p1", region |-> "us-east-1"]
    /\ selections = <<>> /\ listing = EmptyListing
    /\ pc = "idle"
    /\ ri = 0 /\ ii = 0 /\ hpc = "none"
    /\ results = <<>> /\ all_results = <<>>
    /\ calls = <<>> /\ faults = 0
    /\ response = NoResponse
    /\ confirmation = "none"
    /\ volume = NoVolume /\ attempts = 0 /\ pageNo = 0
    /\ jsonfile = "ok" /\ arns = <<>> /\ ai = 0 /\ printed = <<>>
    /\ request = NoSession /\ npages = 1 /\ buckets = <<>>
    /\ inventory = <<>> /\ ki = 0 /\ found = <<>> /\ bi = 0
    /\ destroyer = NoSession /\ data = NoSession /\ history = <<>>

NextPar ==
    \/ par_start \/ par_dispatch \/ par_respond
    \/ par_describe \/ par_detach \/ par_wait_poll \/ par_wait \/ par_delete
    \/ provider_detaches

SpecPar == InitPar /\ [][NextPar]_vars

\* A thread is inside the delete of an id from the handler's first statement
\* to the return of its result.
InDelete(t) == threads[t].pc = "handler"

\* C12: no two deletes of the same resource id are in progress at the same
\* time, whether the id is repeated within a batch or named by two deletion
\* requests that are served concurrently.
C12_NoConcurrentDeleteOfSameId ==
    \A t, u \in Threads :
        (t # u /\ InDelete(t) /\ InDelete(u)) => IdOf(t) # IdOf(u)

\* ------------------------------------------------------ the ids of a request
\* The resource an ARN names, by the provider's ARN formats: the bucket of an
\* s3 ARN (an object's ARN carries its key after the bucket), else what
\* follows the resource type in "type/id" or "type:id", else the resource field.
NamedResource(arn) ==
    IF Len(arn) < 6 THEN arn[Len(arn)]
    ELSE IF arn[3] = <<"s3">> THEN <<arn[6][1]>>
    ELSE IF Len(arn[6]) > 1 THEN Tail(arn[6])
    ELSE IF Len(arn) > 6 THEN arn[7]
    ELSE arn[6]

\* The ids the caller supplied: those of the selections of a deletion request,
\* and the resources the ARNs given to the command line tool name.
RequestedIds ==
    UNION {{selections[r].ids[i] : i \in 1..Len(selections[r].ids)} : r \in 1..Len(selections)}
        \cup {NamedResource(arns[a]) : a \in 1..Len(arns)}

\* C13: the identifier of every provider delete call and of every result is
\* an id the caller supplied; none is made up or altered on the way.
C13_IdsAreTheRequestedOnes ==
    /\ \A k \in 1..Len(calls) :
        (calls[k].op \in DeleteOps /\ creds = "ok") => calls[k].arg \in RequestedIds
    /\ \A k \in 1..Len(Reported) : Reported[k].resource \in RequestedIds
    /\ \A k \in 1..Len(printed) :
        printed[k].text \notin {"Error deleting", "Unsupported resource type for deletion"}
            => printed[k].about \in RequestedIds

\* ------------------------------------------- wipeIt/app.py: a browser session
\* One browser sends requests one after the other; the session cookie starts
\* empty and carries what the inventory route stored in it.

SessionInventoryRequests ==
    {[profile |-> "", region |-> "us-east-1"],
     [profile |-> "p1", region |-> "us-east-1"],
     [profile |-> "p1", region |-> "eu-west-1"]}
\* What a delete request may send along: nothing, or a profile and region.
DeleteBodies == {NoSession, [profile |-> "p2", region |-> "ap-south-1"]}
SessionSelections == {<<[kind |-> "lambda", ids |-> <<"r1">>]>>}

Sent(route, body) == [route |-> route, profile |-> body.profile, region |-> body.region]
Idle == pc \in {"await", "done"} /\ Len(history) < MaxRequests

\* POST /api/inventory arrives.
post_inventory ==
    /\ Idle
    /\ \E req \in SessionInventoryRequests :
        /\ request' = req
        /\ history' = Append(history, Sent("inventory", req))
    /\ pc' = "inv_start"
    /\ response' = NoResponse
    /\ inventory' = <<>> /\ ki' = 0
    /\ destroyer' = NoSession
    /\ UNCHANGED <<parVars, arnVars, data, npages, buckets, found, bi, creds, session,
                   selections, ri, ii, hpc, results, all_results, calls, faults, confirmation,
                   volume, attempts, listing, pageNo>>

\* POST /api/delete arrives.
post_delete ==
    /\ Idle
    /\ \E sel \in SessionSelections : \E body \in DeleteBodies :
        /\ selections' = sel
        /\ data' = body
        /\ history' = Append(history, Sent("delete", body))
    /\ pc' = "idle"
    /\ response' = NoResponse
    /\ results' = <<>> /\ all_results' = <<>> /\ ri' = 0 /\ ii' = 0
    /\ destroyer' = NoSession
    /\ UNCHANGED <<parVars, arnVars, invVars, creds, session, hpc, calls, faults, confirmation,
                   volume, attempts, listing, pageNo>>

InitSession ==
    /\ creds \in {"ok", "nocreds", "noprofile"}
    /\ session = NoSession
    /\ pc = "await"
    /\ history = <<>>
    /\ destroyer = NoSession /\ data = NoSession
    /\ request = NoSession /\ npages = 1
    /\ buckets = <<[Name |-> "b1", LocationConstraint |-> Null]>>
    /\ inventory = <<>> /\ ki = 0 /\ found = <<>> /\ bi = 0
    /\ selections = <<>> /\ listing = EmptyListing
    /\ ri = 0 /\ ii = 0 /\ hpc = "none"
    /\ results = <<>> /\ all_results = <<>>
    /\ calls = <<>> /\ faults = 0
    /\ response = NoResponse
    /\ confirmation = "none"
    /\ volume = NoVolume /\ attempts = 0 /\ pageNo = 0
    /\ jsonfile = "ok" /\ arns = <<>> /\ ai = 0 /\ printed = <<>>
    /\ threads = <<>> /\ volumes = <<>>

NextSession ==
    \/ post_inventory \/ post_delete
    \/ inv_bad_request \/ inv_noprofile \/ inv_start \/ inv_respond
    \/ discover_lambda \/ discover_api_gateway \/ discover_sqs \/ discover_ec2
    \/ discover_cloudwatch_logs \/ discover_ebs
    \/ s3_list_buckets \/ s3_location \/ s3_return
    \/ route_expired \/ route_noprofile \/ route_start
    \/ route_call \/ route_extend \/ route_respond
    \/ dispatch_next \/ dispatch_end
    \/ delete_lambda

SpecSession == InitSession /\ [][NextSession]_vars

\* An inventory request that supplied both a profile and a region.
Qualifies(h) == h.route = "inventory" /\ h.profile # "" /\ h.region # ""
\* The profile and region of the most recent such request of a history.
Stored(hist) ==
    LET q == {i \in 1..Len(hist) : Qualifies(hist[i])}
    IN IF q = {} THEN NoSession
       ELSE LET m == CHOOSE i \in q : \A j \in q : j <= i
            IN [profile |-> hist[m].profile, region |-> hist[m].region]
\* The requests sent before the one being served.
Earlier == SubSeq(history, 1, Len(history) - 1)
ServingDelete == history # <<>> /\ history[Len(history)].route = "delete"
DeleteCalled == \E k \in 1..Len(calls) : calls[k].op \in DeleteOps
Expired == [status |-> 400, body |-> "Session expired", results |-> <<>>]

\* C14: a delete request reaches the provider only after an earlier inventory
\* request of the session supplied a profile and a region; without one it is
\* answered 'Session expired' and no delete call is made; and the AWSDestroyer
\* of a delete request is built from the profile and region of the most recent
\* such inventory request, whatever the delete request sends along.
C14_DeleteUsesTheSessionOfInventory ==
    /\ DeleteCalled =>
        \E i, j \in 1..Len(history) :
            i < j /\ Qualifies(history[i]) /\ history[j].route = "delete"
    /\ pc \in {"route", "dispatch", "handler", "return"} => destroyer # NoSession
    /\ destroyer # NoSession => (ServingDelete /\ destroyer = Stored(Earlier))
    /\ (ServingDelete /\ pc = "done" /\ Stored(Earlier) = NoSession) =>
        (response = Expired /\ ~DeleteCalled)

\* After two inventory requests, a delete request that sends a profile and a
\* region of its own deletes with those of the second inventory request.
C14_Witness ==
    /\ Len(history) = 3 /\ pc = "done" /\ response.status = 200
    /\ history[1] = Sent("inventory", [profile |-> "p1", region |-> "us-east-1"])
    /\ history[2] = Sent("inventory", [profile |-> "p1", region |-> "eu-west-1"])
    /\ history[3] = Sent("delete", [profile |-> "p2", region |-> "ap-south-1"])
    /\ destroyer = [profile |-> "p1", region |-> "eu-west-1"]
    /\ \E k \in 1..Len(calls) : IsCall(k, "delete_function", "r1", "ok")

====
